---- MODULE Spec2Model ----
(***************************************************************************)
(* Conway's Game of Life on a torus, as implemented in src/main.rs:        *)
(* Field (a height x width Vec<Vec<bool>> with wrapping reads and          *)
(* bounds-checked writes), Life (two Fields, current and next, swapped     *)
(* after every generation), its Display rendering, and the driver loop of  *)
(* main that renders a frame and then steps.                               *)
(***************************************************************************)
EXTENDS Integers, Sequences, FiniteSets, TLC

VARIABLES
    args,    \* Config: [width, height] as parsed from the command line
    life,    \* the Life value owned by main: [current, next, width, height]
    pc,      \* position of main: "new", "render", "step", "panic"; "field"/"seed" in the harnesses
    out,     \* the text of the last frame written to the terminal
    frames,  \* number of frames written so far
    gen,     \* number of completed calls of Life::step
    seed,    \* history: life.current as Life::new returned it
    prev,    \* history: the Field an operation worked on, as it was before the last operation
    picked,  \* history: the cells the random source picked in Life::new
    picks,   \* history: outcome of the seeding loop header, [panic, n]
    ret      \* history: the last direct call of a Field method, with its arguments and result

vars == <<args, life, pc, out, frames, gen, seed, prev, picked, picks, ret>>

----------------------------------------------------------------------------
(* Bounds of the model *)

\* largest number of cells (width * height) of the driver's grids
MaxCells == 12
\* largest number of Life::step calls in one run
MaxGen == 3
\* largest side of the grids holding a block
MaxBlockDim == 6
\* largest side of the grids holding a blinker
MaxBlinkerDim == 6
\* largest number of cells of the grids assembled cell by cell
MaxAsmCells == 9
\* largest number of cells set alive in an assembled grid
MaxAsmAlive == 3
\* largest width of the Fields of the Field harness
MaxFieldW == 3
\* largest height of the Fields of the Field harness
MaxFieldH == 2
\* largest number of alive cells the Field harness sets in one Field
MaxFieldAlive == 2

----------------------------------------------------------------------------
(* Machine integers *)

\* number of values of a u16 (the type of width, height, x and y)
U16 == 65536
\* largest u16
MaxU16 == 65535
\* least i32 (the type of the coordinates of is_alive and next)
MinI32 == (-2147483647) - 1
\* largest i32
MaxI32 == 2147483647

\* `v as u16` for an i32 v: the low 16 bits
AsU16(v) == v % U16

\* the `%` of Rust on i32, b > 0: the remainder truncated towards zero, which
\* has the sign of a (written so that no intermediate value leaves the i32 range)
TruncRem(a, b) ==
    IF a >= 0 THEN a % b ELSE 0 - ((((0 - (a + 1)) % b) + 1) % b)

\* i32::rem_euclid with the bug of using `%` in its place
RemEuclidTruncating(a, b) == TruncRem(a, b)

\* i32::rem_euclid(a, b) for b > 0: r = a % b; if r < 0 { r + |b| } else { r }
RemEuclid(a, b) ==
    LET r == TruncRem(a, b) IN IF r < 0 THEN r + b ELSE r

\* u16 multiplication a * b: the product when it fits; on overflow a panic in a
\* build with overflow checks (debug) and the wrapped product without (release)
MulU16(a, b) ==
    IF a * b < U16
    THEN {[panic |-> FALSE, v |-> a * b]}
    ELSE {[panic |-> TRUE, v |-> 0], [panic |-> FALSE, v |-> (a * b) % U16]}

----------------------------------------------------------------------------
(* Field *)

\* Field::new: height rows of width dead cells
Field_new(width, height) ==
    [cells  |-> [y \in 0 .. height - 1 |-> [x \in 0 .. width - 1 |-> FALSE]],
     width  |-> width,
     height |-> height]

\* Field::set that wraps the coordinates instead of rejecting them
Field_set_wrapping(f, x, y, val) ==
    [err |-> FALSE,
     f   |-> [f EXCEPT !.cells[y % f.height][x % f.width] = val]]

\* Field::set rejecting the last column and the last row as well
Field_set_off_by_one(f, x, y, val) ==
    IF x + 1 >= f.width \/ y + 1 >= f.height
    THEN [err |-> TRUE, f |-> f]
    ELSE [err |-> FALSE, f |-> [f EXCEPT !.cells[y][x] = val]]

\* Field::set assigning the whole row y instead of the one cell
Field_set_row(f, x, y, val) ==
    IF x >= f.width \/ y >= f.height
    THEN [err |-> TRUE, f |-> f]
    ELSE [err |-> FALSE,
          f   |-> [f EXCEPT !.cells[y] = [c \in 0 .. f.width - 1 |-> val]]]

\* Field::set(x, y, val), x and y u16: [err, f], err for Err("coordinates are out
\* of bounds") and f the field afterwards
Field_set(f, x, y, val) ==
    IF x >= f.width \/ y >= f.height
    THEN [err |-> TRUE, f |-> f]
    ELSE [err |-> FALSE, f |-> [f EXCEPT !.cells[y][x] = val]]

\* Field::is_alive without the wrap: a coordinate outside the grid reads as dead
Field_is_alive_clamped(f, x, y) ==
    IF x \in 0 .. f.width - 1 /\ y \in 0 .. f.height - 1
    THEN [panic |-> FALSE, val |-> f.cells[y][x]]
    ELSE [panic |-> FALSE, val |-> FALSE]

\* Field::is_alive(x, y), x and y i32: [panic, val]; panic when the remainder
\* has a zero divisor or an index is outside the Vec
Field_is_alive(f, x, y) ==
    IF f.width = 0 \/ f.height = 0
    THEN [panic |-> TRUE, val |-> FALSE]
    ELSE LET xi == AsU16(RemEuclid(x, f.width))
             yi == AsU16(RemEuclid(y, f.height))
         IN  IF yi \in DOMAIN f.cells /\ xi \in DOMAIN f.cells[yi]
             THEN [panic |-> FALSE, val |-> f.cells[yi][xi]]
             ELSE [panic |-> TRUE, val |-> FALSE]

\* NEIGHBORS with the cell itself in the place of its last neighbour
NEIGHBORS_with_self ==
    << <<-1, -1>>, <<0, -1>>, <<1, -1>>,
       <<-1, 0>>,             <<1, 0>>,
       <<-1, 1>>,  <<0, 1>>,  <<0, 0>> >>

\* const NEIGHBORS of Field::next, as [i, j]
NEIGHBORS ==
    << <<-1, -1>>, <<0, -1>>, <<1, -1>>,
       <<-1, 0>>,             <<1, 0>>,
       <<-1, 1>>,  <<0, 1>>,  <<1, 1>> >>

\* the loop of Field::next from the k-th entry of NEIGHBORS on, with
\* alive_neighbors = n so far: [panic, n]
RECURSIVE CountFrom(_, _, _, _, _)
CountFrom(f, x, y, k, n) ==
    IF k > Len(NEIGHBORS)
    THEN [panic |-> FALSE, n |-> n]
    ELSE LET a == Field_is_alive(f, x + NEIGHBORS[k][1], y + NEIGHBORS[k][2])
         IN  IF a.panic
             THEN [panic |-> TRUE, n |-> n]
             ELSE CountFrom(f, x, y, k + 1, IF a.val THEN n + 1 ELSE n)

\* Field::next counting each alive cell of the neighbourhood once, and never
\* the cell itself, however many offsets lead to it
Field_next_distinct(f, x, y) ==
    LET reached == {<<(x + NEIGHBORS[k][1]) % f.width, (y + NEIGHBORS[k][2]) % f.height>> :
                        k \in 1 .. Len(NEIGHBORS)} \ {<<x % f.width, y % f.height>>}
        n == Cardinality({c \in reached : f.cells[c[2]][c[1]]})
    IN  [panic |-> FALSE, val |-> n = 3 \/ (n = 2 /\ Field_is_alive(f, x, y).val)]

\* Field::next without the test of the cell's own state
Field_next_no_self(f, x, y) ==
    LET c == CountFrom(f, x, y, 1, 0)
    IN  [panic |-> c.panic, val |-> ~c.panic /\ (c.n = 3 \/ c.n = 2)]

\* Field::next(x, y): [panic, val],
\* val = alive_neighbors == 3 || alive_neighbors == 2 && self.is_alive(x, y)
Field_next(f, x, y) ==
    LET c == CountFrom(f, x, y, 1, 0)
    IN  IF c.panic
        THEN [panic |-> TRUE, val |-> FALSE]
        ELSE IF c.n = 3
             THEN [panic |-> FALSE, val |-> TRUE]
             ELSE IF c.n = 2
                  THEN Field_is_alive(f, x, y)
                  ELSE [panic |-> FALSE, val |-> FALSE]

----------------------------------------------------------------------------
(* Life *)

\* the loop header of Life::new, `0..width * height / 4`: the possible
\* [panic, n], n the number of iterations
SeedIterations(width, height) ==
    {[panic |-> m.panic, n |-> m.v \div 4] : m \in MulU16(width, height)}

\* the seeding loop of Life::new from the i-th pick on; rng is the sequence of
\* the <<x, y>> the random source returns: [panic, f]
RECURSIVE SeedFrom(_, _, _)
SeedFrom(f, rng, i) ==
    IF i > Len(rng)
    THEN [panic |-> FALSE, f |-> f]
    ELSE LET r == Field_set(f, rng[i][1], rng[i][2], TRUE)
         IN  IF r.err
             THEN [panic |-> TRUE, f |-> r.f]
             ELSE SeedFrom(r.f, rng, i + 1)

\* Life::new whose scratch grid is a copy of the seeded grid
Life_new_cloned(width, height, rng) ==
    LET s == SeedFrom(Field_new(width, height), rng, 1)
    IN  [panic |-> s.panic,
         life  |-> [current |-> s.f, next |-> s.f,
                    width |-> width, height |-> height]]

\* Life::new building the scratch grid with width and height exchanged
Life_new_transposed(width, height, rng) ==
    LET s == SeedFrom(Field_new(width, height), rng, 1)
    IN  [panic |-> s.panic,
         life  |-> [current |-> s.f, next |-> Field_new(height, width),
                    width |-> width, height |-> height]]

\* Life::new(width, height) with the random picks rng: [panic, life]
Life_new(width, height, rng) ==
    LET s == SeedFrom(Field_new(width, height), rng, 1)
    IN  [panic |-> s.panic,
         life  |-> [current |-> s.f, next |-> Field_new(width, height),
                    width |-> width, height |-> height]]

\* the inner loop of Life::step, `for x in 0..self.width`, from x on in row y
RECURSIVE StepRow(_, _, _)
StepRow(l, y, x) ==
    IF x >= l.width
    THEN [panic |-> FALSE, life |-> l]
    ELSE LET v == Field_next(l.current, x, y)
             r == Field_set(l.next, x, y, v.val)
         IN  IF v.panic \/ r.err
             THEN [panic |-> TRUE, life |-> l]
             ELSE StepRow([l EXCEPT !.next = r.f], y, x + 1)

\* the outer loop of Life::step, `for y in 0..self.height`, from y on
RECURSIVE StepRows(_, _)
StepRows(l, y) ==
    IF y >= l.height
    THEN [panic |-> FALSE, life |-> l]
    ELSE LET r == StepRow(l, y, 0)
         IN  IF r.panic THEN r ELSE StepRows(r.life, y + 1)

\* Life::step updating the current grid in place, cell after cell
RECURSIVE InPlaceFrom(_, _)
InPlaceFrom(l, k) ==
    IF k >= l.width * l.height
    THEN l
    ELSE LET x == k % l.width
             y == k \div l.width
             v == Field_next(l.current, x, y)
         IN  InPlaceFrom([l EXCEPT !.current = Field_set(l.current, x, y, v.val).f],
                         k + 1)

\* see InPlaceFrom
Life_step_in_place(l) == [panic |-> FALSE, life |-> InPlaceFrom(l, 0)]

\* Life::step without the final mem::swap
Life_step_no_swap(l) == StepRows(l, 0)

\* Life::step copying the scratch grid into current instead of swapping
Life_step_copy(l) ==
    LET r == StepRows(l, 0)
    IN  IF r.panic
        THEN r
        ELSE [panic |-> FALSE, life |-> [r.life EXCEPT !.current = r.life.next]]

\* Life::step writing only the cells that come alive, from cell k on in row-major order
RECURSIVE SparseFrom(_, _)
SparseFrom(l, k) ==
    IF k >= l.width * l.height
    THEN l
    ELSE LET x == k % l.width
             y == k \div l.width
         IN  SparseFrom(IF Field_next(l.current, x, y).val
                        THEN [l EXCEPT !.next = Field_set(l.next, x, y, TRUE).f]
                        ELSE l,
                        k + 1)

\* see SparseFrom
Life_step_sparse(l) ==
    LET r == SparseFrom(l, 0)
    IN  [panic |-> FALSE,
         life  |-> [r EXCEPT !.current = r.next, !.next = r.current]]

\* Life::step: [panic, life]; the two loops, then mem::swap(current, next)
Life_step(l) ==
    LET r == StepRows(l, 0)
    IN  IF r.panic
        THEN r
        ELSE [panic |-> FALSE,
              life  |-> [r.life EXCEPT !.current = r.life.next,
                                       !.next = r.life.current]]

\* the inner loop of Display::fmt from x on in row y, appending to text
RECURSIVE FmtRow(_, _, _, _)
FmtRow(l, y, x, text) ==
    IF x >= l.width
    THEN [panic |-> FALSE, text |-> text]
    ELSE LET a == Field_is_alive(l.current, x, y)
         IN  IF a.panic
             THEN [panic |-> TRUE, text |-> text]
             ELSE FmtRow(l, y, x + 1,
                         Append(text, IF a.val THEN "*" ELSE " "))

\* the outer loop of Display::fmt from y on: a row, then writeln!
RECURSIVE FmtRows(_, _, _)
FmtRows(l, y, text) ==
    IF y >= l.height
    THEN [panic |-> FALSE, text |-> text]
    ELSE LET r == FmtRow(l, y, 0, text)
         IN  IF r.panic THEN r ELSE FmtRows(l, y + 1, Append(r.text, "\n"))

\* Display::fmt reading the scratch grid
Life_fmt_scratch(l) == FmtRows([l EXCEPT !.current = l.next], 0, <<>>)

\* Display::fmt emitting the columns as lines
RECURSIVE FmtTransposed(_, _, _)
FmtTransposed(l, k, text) ==
    IF k >= l.width * l.height
    THEN text
    ELSE LET x == k \div l.height
             y == k % l.height
             c == IF Field_is_alive(l.current, x, y).val THEN "*" ELSE " "
         IN  FmtTransposed(l, k + 1,
                 IF y = l.height - 1 THEN text \o <<c, "\n">> ELSE Append(text, c))

\* see FmtTransposed
Life_fmt_transposed(l) == [panic |-> FALSE, text |-> FmtTransposed(l, 0, <<>>)]

\* <Life as Display>::fmt: [panic, text], text the characters written
Life_fmt(l) == FmtRows(l, 0, <<>>)

----------------------------------------------------------------------------
(* main *)

\* the state before `let mut life`: no Life yet
NoField == Field_new(0, 0)

\* see NoField
NoLife == [current |-> NoField, next |-> NoField, width |-> 0, height |-> 0]

\* no direct Field call yet
NoRet == [op |-> "none", x |-> 0, y |-> 0, val |-> FALSE, err |-> FALSE, panic |-> FALSE]

\* the grids the driver is run on: every width x height of at most MaxCells cells
Dims == {d \in (1 .. MaxCells) \X (1 .. MaxCells) : d[1] * d[2] <= MaxCells}

\* the values rng.gen_range(0..width), rng.gen_range(0..height) can return
Coords(width, height) == (0 .. width - 1) \X (0 .. height - 1)

\* the set of cells named in a sequence of picks
Range(s) == {s[i] : i \in DOMAIN s}

\* main before Life::new, for the grid dimensions in D
InitArgs(D) ==
    /\ args \in {[width |-> d[1], height |-> d[2]] : d \in D}
    /\ life = NoLife
    /\ pc = "new"
    /\ out = <<>>
    /\ frames = 0
    /\ gen = 0
    /\ seed = NoField
    /\ prev = NoField
    /\ picked = {}
    /\ picks = [panic |-> FALSE, n |-> 0]
    /\ ret = NoRet

\* main line 127: Config::parse()
Init == InitArgs(Dims)

\* main line 129: Life::new(config.width, config.height)
New ==
    /\ pc = "new"
    /\ \E it \in SeedIterations(args.width, args.height) :
         /\ picks' = it
         /\ IF it.panic
            THEN /\ pc' = "panic"
                 /\ UNCHANGED <<life, seed, picked>>
            ELSE \E rng \in [1 .. it.n -> Coords(args.width, args.height)] :
                   LET r == Life_new(args.width, args.height, rng)
                   IN  /\ pc' = IF r.panic THEN "panic" ELSE "render"
                       /\ life' = r.life
                       /\ seed' = r.life.current
                       /\ picked' = Range(rng)
    /\ UNCHANGED <<args, out, frames, gen, prev, ret>>

\* the frame written by a rendering that takes the cells out of the grid it reads
Render_draining ==
    /\ pc = "render"
    /\ LET r == Life_fmt(life)
       IN  /\ pc' = IF r.panic THEN "panic" ELSE "step"
           /\ out' = r.text
    /\ life' = [life EXCEPT !.current = Field_new(life.width, life.height)]
    /\ frames' = frames + 1
    /\ UNCHANGED <<args, gen, seed, prev, picked, picks, ret>>

\* main lines 132-141: queue the frame (style::Print(&life)) and flush
Render ==
    /\ pc = "render"
    /\ LET r == Life_fmt(life)
       IN  /\ pc' = IF r.panic THEN "panic" ELSE "step"
           /\ out' = r.text
    /\ frames' = frames + 1
    /\ UNCHANGED <<args, life, gen, seed, prev, picked, picks, ret>>

\* main lines 143-144: life.step(), then the sleep
Step ==
    /\ pc = "step"
    /\ gen < MaxGen
    /\ LET r == Life_step(life)
       IN  /\ pc' = IF r.panic THEN "panic" ELSE "render"
           /\ life' = r.life
    /\ prev' = life.current
    /\ gen' = gen + 1
    /\ UNCHANGED <<args, out, frames, seed, picked, picks, ret>>

Next == New \/ Render \/ Step

Spec == Init /\ [][Next]_vars

----------------------------------------------------------------------------
(* Direct calls of the Field methods: a Field built by Field::new, written by *)
(* set and read by is_alive with arguments of the whole u16 and i32 ranges   *)

\* the Fields the methods are called on
FieldDims == (1 .. MaxFieldW) \X (1 .. MaxFieldH)

\* u16 arguments around a dimension d: in range, the first two out of range, the largest
U16Probes(d) == {0, d - 1, d, d + 1, MaxU16}

\* i32 arguments around a dimension d: the extremes, negative, in range, beyond
I32Probes(d) == {MinI32, 0 - d - 1, -1, 0, d - 1, d, MaxI32}

\* number of alive cells of a Field
AliveCount(f) ==
    Cardinality({c \in (0 .. f.width - 1) \X (0 .. f.height - 1) : f.cells[c[2]][c[1]]})

\* a fresh pair of Fields, as at lines 77 and 87 of Life::new before the seeding
InitField ==
    /\ \E d \in FieldDims :
         /\ args = [width |-> d[1], height |-> d[2]]
         /\ life = [current |-> Field_new(d[1], d[2]), next |-> Field_new(d[1], d[2]),
                    width |-> d[1], height |-> d[2]]
    /\ pc = "field"
    /\ out = <<>>
    /\ frames = 0
    /\ gen = 0
    /\ seed = NoField
    /\ prev = NoField
    /\ picked = {}
    /\ picks = [panic |-> FALSE, n |-> 0]
    /\ ret = NoRet

\* life.current.set(x, y, val)
SetCall ==
    /\ pc = "field"
    /\ \E x \in U16Probes(life.current.width), y \in U16Probes(life.current.height),
          val \in BOOLEAN :
         LET r == Field_set(life.current, x, y, val)
         IN  /\ AliveCount(r.f) <= MaxFieldAlive
             /\ life' = [life EXCEPT !.current = r.f]
             /\ ret' = [op |-> "set", x |-> x, y |-> y, val |-> val,
                        err |-> r.err, panic |-> FALSE]
    /\ prev' = life.current
    /\ UNCHANGED <<args, pc, out, frames, gen, seed, picked, picks>>

\* life.current.is_alive(x, y)
IsAliveCall ==
    /\ pc = "field"
    /\ \E x \in I32Probes(life.current.width), y \in I32Probes(life.current.height) :
         LET r == Field_is_alive(life.current, x, y)
         IN  ret' = [op |-> "is_alive", x |-> x, y |-> y, val |-> r.val,
                     err |-> FALSE, panic |-> r.panic]
    /\ prev' = life.current
    /\ UNCHANGED <<args, life, pc, out, frames, gen, seed, picked, picks>>

NextField == SetCall \/ IsAliveCall

SpecField == InitField /\ [][NextField]_vars

----------------------------------------------------------------------------
(* The loop header of Life::new over the whole range of the u16 arguments *)

\* widths and heights of the u16 range, the defaults 40 and 15 among them
\* (lines 153 and 156)
U16Dims == {1, 2, 4, 15, 40, 255, 256, 257, 300, 1000, 32767, MaxU16}

\* the pairs of them whose product fits the 32-bit integers of TLC
SeedDims == {d \in U16Dims \X U16Dims : d[1] <= 32767 \/ d[2] <= 32767}

\* main before Life::new, for any of these dimensions
InitSeed == InitArgs(SeedDims)

\* Life::new up to the loop header at line 79: `width * height / 4` is evaluated
\* and the loop is entered, or the multiplication panics
NewLoopHeader ==
    /\ pc = "new"
    /\ \E it \in SeedIterations(args.width, args.height) :
         /\ picks' = it
         /\ pc' = IF it.panic THEN "panic" ELSE "seed"
    /\ UNCHANGED <<args, life, out, frames, gen, seed, prev, picked, ret>>

NextSeed == NewLoopHeader

SpecSeed == InitSeed /\ [][NextSeed]_vars

----------------------------------------------------------------------------
(* The driver started on a grid seeded with a known pattern *)

\* main after Life::new(width, height) when the random source returned rng
InitAfterNew(width, height, rng) ==
    /\ args = [width |-> width, height |-> height]
    /\ life = Life_new(width, height, rng).life
    /\ pc = "render"
    /\ out = <<>>
    /\ frames = 0
    /\ gen = 0
    /\ seed = Life_new(width, height, rng).life.current
    /\ prev = NoField
    /\ picked = Range(rng)
    /\ picks = [panic |-> FALSE, n |-> Len(rng)]
    /\ ret = NoRet

\* the cells of the 2x2 square with top left corner (x0, y0)
BlockCells(x0, y0) == {<<x0, y0>>, <<x0 + 1, y0>>, <<x0, y0 + 1>>, <<x0 + 1, y0 + 1>>}

\* width * height / 4 picks that go round the four cells of the block
BlockPicks(width, height, x0, y0) ==
    [i \in 1 .. (width * height) \div 4 |->
        <<x0 + ((i - 1) % 2), y0 + (((i - 1) \div 2) % 2)>>]

\* Life::new returned a block that touches no edge of the grid
InitBlock ==
    \E width \in 4 .. MaxBlockDim, height \in 4 .. MaxBlockDim :
      \E x0 \in 1 .. width - 3, y0 \in 1 .. height - 3 :
        InitAfterNew(width, height, BlockPicks(width, height, x0, y0))

SpecBlock == InitBlock /\ [][Render \/ Step]_vars

\* the three cells of the line through the centre (cx, cy), on the torus:
\* of its row when horizontal, of its column otherwise
BlinkerCells(width, height, cx, cy, horizontal) ==
    IF horizontal
    THEN {<<(cx + d) % width, cy>> : d \in {-1, 0, 1}}
    ELSE {<<cx, (cy + d) % height>> : d \in {-1, 0, 1}}

\* width * height / 4 picks that go round the three cells of the blinker
BlinkerPicks(width, height, cx, cy, horizontal) ==
    [i \in 1 .. (width * height) \div 4 |->
        IF horizontal
        THEN <<(cx + (i % 3) - 1) % width, cy>>
        ELSE <<cx, (cy + (i % 3) - 1) % height>>]

\* Life::new returned a blinker
InitBlinker ==
    \E width \in 5 .. MaxBlinkerDim, height \in 5 .. MaxBlinkerDim :
      \E cx \in 0 .. width - 1, cy \in 0 .. height - 1, horizontal \in BOOLEAN :
        InitAfterNew(width, height, BlinkerPicks(width, height, cx, cy, horizontal))

SpecBlinker == InitBlinker /\ [][Render \/ Step]_vars

----------------------------------------------------------------------------
(* A Life assembled from two fresh Fields and Field::set calls, as a test of  *)
(* Life::step would build it, and then run by the loop of main. Life::new     *)
(* cannot seed every such grid: it makes no pick on 1x1 and two on 3x3.       *)

\* the grids assembled: every width x height of at most MaxAsmCells cells
AsmDims == {d \in (1 .. MaxAsmCells) \X (1 .. MaxAsmCells) : d[1] * d[2] <= MaxAsmCells}

\* Life { current: Field::new(..), next: Field::new(..), width, height }, given
\* to the loop at once or after some cells are set
InitAssembled ==
    /\ \E d \in AsmDims :
         /\ args = [width |-> d[1], height |-> d[2]]
         /\ life = [current |-> Field_new(d[1], d[2]), next |-> Field_new(d[1], d[2]),
                    width |-> d[1], height |-> d[2]]
         /\ seed = Field_new(d[1], d[2])
    /\ pc \in {"field", "render"}
    /\ out = <<>>
    /\ frames = 0
    /\ gen = 0
    /\ prev = NoField
    /\ picked = {}
    /\ picks = [panic |-> FALSE, n |-> 0]
    /\ ret = NoRet

\* life.current.set(x, y, true).unwrap() on a dead cell; then another cell, or
\* the loop of main
Place ==
    /\ pc = "field"
    /\ AliveCount(life.current) < MaxAsmAlive
    /\ \E c \in Coords(life.width, life.height) :
         LET r == Field_set(life.current, c[1], c[2], TRUE)
         IN  /\ ~life.current.cells[c[2]][c[1]]
             /\ life' = [life EXCEPT !.current = r.f]
             /\ seed' = r.f
             /\ pc' \in IF r.err THEN {"panic"} ELSE {"field", "render"}
    /\ UNCHANGED <<args, out, frames, gen, prev, picked, picks, ret>>

NextAssembled == Place \/ Render \/ Step

SpecAssembled == InitAssembled /\ [][NextAssembled]_vars

----------------------------------------------------------------------------
(* Reference definitions the properties are stated with *)

\* the cells of a grid of the given dimensions, as <<x, y>>
Cells(width, height) == (0 .. width - 1) \X (0 .. height - 1)

\* the eight offsets of the Moore neighbourhood
Offsets == (({-1, 0, 1}) \X ({-1, 0, 1})) \ {<<0, 0>>}

\* a Life has been constructed and main is in its loop
Running == pc \in {"render", "step"}

\* the number of offsets at which is_alive reports an alive cell
AliveOffsets(f, x, y) ==
    Cardinality({d \in Offsets : Field_is_alive(f, x + d[1], y + d[2]).val})

\* B3/S23 on the torus, stated on the stored cells: one generation
RefStep(f) ==
    [f EXCEPT !.cells =
        [y \in 0 .. f.height - 1 |-> [x \in 0 .. f.width - 1 |->
            LET n == Cardinality({d \in Offsets :
                        f.cells[(y + d[2]) % f.height][(x + d[1]) % f.width]})
            IN  n = 3 \/ (n = 2 /\ f.cells[y][x])]]]

\* generation n of the grid f
RECURSIVE RefGen(_, _)
RefGen(f, n) == IF n = 0 THEN f ELSE RefGen(RefStep(f), n - 1)

\* the text of a grid: height lines of width characters and a line break
RefText(f) ==
    [i \in 1 .. f.height * (f.width + 1) |->
        LET y == (i - 1) \div (f.width + 1)
            x == (i - 1) % (f.width + 1)
        IN  IF x = f.width THEN "\n" ELSE IF f.cells[y][x] THEN "*" ELSE " "]

----------------------------------------------------------------------------
(* Properties *)

\* C1: after Life::step every cell of current holds Field::next of that cell
\* evaluated on the grid as it was before the step; no cell is computed from a
\* cell updated during the same step.
C1_StepIsSynchronous ==
    (pc = "render" /\ gen > 0) =>
        \A c \in Cells(life.width, life.height) :
            life.current.cells[c[2]][c[1]] = Field_next(prev, c[1], c[2]).val

\* C1 witness: a first step was taken from a populated grid, changed it and
\* left cells alive.
C1_Witness ==
    /\ pc = "render"
    /\ gen = 1
    /\ AliveCount(prev) > 0
    /\ AliveCount(life.current) > 0
    /\ life.current # prev

\* C2: Field::next is B3/S23 over the eight wrapped offsets: alive on 3 alive
\* offsets, the cell's own state on 2, dead otherwise; and the grid next was
\* called on during a step is unchanged by the calls.
C2_NextIsB3S23 ==
    Running =>
        /\ \A c \in Cells(life.width, life.height) :
             LET n == AliveOffsets(life.current, c[1], c[2])
                 r == Field_next(life.current, c[1], c[2])
             IN  /\ ~r.panic
                 /\ (n = 3) => r.val
                 /\ (n = 2) => (r.val = Field_is_alive(life.current, c[1], c[2]).val)
                 /\ (n \notin {2, 3}) => ~r.val
        /\ (pc = "render" /\ gen > 0) => life.next = prev

\* C2 witness: a step has been taken from a grid with a birth on 3, a survival
\* on 2, a dead cell left dead on 2 and a death, each seen in the new grid.
C2_Witness ==
    /\ pc = "render"
    /\ gen > 0
    /\ life.width >= 3 /\ life.height >= 3
    /\ \E a \in Cells(life.width, life.height) :
         /\ AliveOffsets(prev, a[1], a[2]) = 3
         /\ ~prev.cells[a[2]][a[1]] /\ life.current.cells[a[2]][a[1]]
    /\ \E b \in Cells(life.width, life.height) :
         /\ AliveOffsets(prev, b[1], b[2]) = 2
         /\ prev.cells[b[2]][b[1]] /\ life.current.cells[b[2]][b[1]]
    /\ \E c \in Cells(life.width, life.height) :
         /\ AliveOffsets(prev, c[1], c[2]) = 2
         /\ ~prev.cells[c[2]][c[1]] /\ ~life.current.cells[c[2]][c[1]]
    /\ \E d \in Cells(life.width, life.height) :
         /\ AliveOffsets(prev, d[1], d[2]) \notin {2, 3}
         /\ prev.cells[d[2]][d[1]] /\ ~life.current.cells[d[2]][d[1]]

\* C3: Field::is_alive never fails, for any i32 x and y, and returns the stored
\* cell at (x mod width, y mod height), the modulo being non-negative.
C3_IsAliveWraps ==
    ret.op = "is_alive" =>
        /\ ~ret.panic
        /\ ret.val = life.current.cells[ret.y % life.current.height]
                                       [ret.x % life.current.width]

\* C3 witness: is_alive read an alive cell through the least i32 as x and a y at
\* or beyond the height, on a grid more than one cell wide.
C3_Witness ==
    /\ ret.op = "is_alive"
    /\ ret.x = MinI32
    /\ ret.y >= life.current.height
    /\ life.current.width > 1
    /\ ret.val

\* C4: Field::set with x >= width or y >= height returns the error and leaves
\* the cells and the dimensions as they were.
C4_SetOutOfBounds ==
    (ret.op = "set" /\ (ret.x >= life.current.width \/ ret.y >= life.current.height)) =>
        /\ ret.err
        /\ life.current = prev

\* C4 witness: set(width, y, true) was refused on a populated grid whose cell
\* (0, y), the one a wrapping set would have written, is dead.
C4_Witness ==
    /\ ret.op = "set"
    /\ ret.x = life.current.width
    /\ ret.y < life.current.height
    /\ ret.val
    /\ ret.err
    /\ AliveCount(life.current) > 0
    /\ ~life.current.cells[ret.y][0]

\* C5: a frame is height lines of width characters and a line break each; the
\* character of line y, column x is '*' when cell (x, y) of current is alive and
\* ' ' when it is dead.
C5_RenderShape ==
    pc = "step" =>
        /\ Len(out) = life.height * (life.width + 1)
        /\ \A y \in 0 .. life.height - 1 :
             /\ out[y * (life.width + 1) + life.width + 1] = "\n"
             /\ \A x \in 0 .. life.width - 1 :
                  out[y * (life.width + 1) + x + 1] =
                      IF life.current.cells[y][x] THEN "*" ELSE " "

\* C5 witness: a frame of a grid with more columns than rows, more than one
\* row, after a step, showing alive and dead cells.
C5_Witness ==
    /\ pc = "step"
    /\ gen > 0
    /\ life.width > life.height
    /\ life.height > 1
    /\ \E i, j \in 1 .. Len(out) : out[i] = "*" /\ out[j] = " "

\* C6: the text rendered after n steps is the text of generation n of the
\* seeded grid, and the k-th frame main writes (from 0) shows generation k.
C6_NoStaleFrames ==
    Running =>
        /\ Life_fmt(life).text = RefText(RefGen(seed, gen))
        /\ (pc = "render") => frames = gen
        /\ (pc = "step") =>
             /\ frames = gen + 1
             /\ out = RefText(RefGen(seed, frames - 1))

\* C6 witness: the third frame has been written, and generations 0, 1 and 2
\* of the seed differ from each other and from the all-dead grid.
C6_Witness ==
    /\ pc = "step"
    /\ frames = 3
    /\ RefGen(seed, 1) # seed
    /\ RefGen(seed, 2) # RefGen(seed, 1)
    /\ RefGen(seed, 2) # seed
    /\ AliveCount(RefGen(seed, 2)) > 0

\* C7: after Life::new at most floor(width * height / 4) cells of current are
\* alive, every cell that was not picked is dead and the scratch grid is dead.
C7_SeededGrid ==
    (pc = "render" /\ frames = 0) =>
        /\ AliveCount(life.current) \in 0 .. ((args.width * args.height) \div 4)
        /\ \A c \in Cells(args.width, args.height) \ picked :
             ~life.current.cells[c[2]][c[1]]
        /\ \A c \in Cells(args.width, args.height) : ~life.next.cells[c[2]][c[1]]

\* C7 witness: Life::new returned after three picks, two of them of the same
\* cell, so that two cells are alive.
C7_Witness ==
    /\ pc = "render"
    /\ frames = 0
    /\ picks.n = 3
    /\ Cardinality(picked) = 2
    /\ AliveCount(life.current) = 2

\* C8: Life::new completes and makes floor(width * height / 4) picks, the
\* mathematical product, for every u16 width and height.
C8_SeedsQuarterOfProduct ==
    (pc \in {"seed", "panic"}) =>
        /\ ~picks.panic
        /\ picks.n = (args.width * args.height) \div 4

\* C9: a block that touches no edge of a grid of at least 4x4 is left
\* cell-for-cell unchanged by any number of steps.
C9_BlockIsStill ==
    /\ pc # "panic"
    /\ \E x0 \in 1 .. life.width - 3, y0 \in 1 .. life.height - 3 :
         \A c \in Cells(life.width, life.height) :
             life.current.cells[c[2]][c[1]] <=> (c \in BlockCells(x0, y0))
    /\ life.current = seed

\* C9 witness: two steps or more were taken from the block.
C9_Witness ==
    /\ pc = "render"
    /\ gen >= 2
    /\ AliveCount(life.current) = 4

\* the grid of the given dimensions whose alive cells are those of S
GridOf(width, height, S) ==
    [cells  |-> [y \in 0 .. height - 1 |-> [x \in 0 .. width - 1 |-> <<x, y>> \in S]],
     width  |-> width,
     height |-> height]

\* C10: from three cells in a row (or a column) on a grid of at least 5x5, one
\* step gives the three cells of the perpendicular line through the same centre
\* and two steps give the original grid.
C10_BlinkerPeriod2 ==
    /\ pc # "panic"
    /\ \A c \in Cells(life.width, life.height), horizontal \in BOOLEAN :
         seed = GridOf(life.width, life.height,
                       BlinkerCells(life.width, life.height, c[1], c[2], horizontal))
         => /\ (gen = 1) =>
                 life.current = GridOf(life.width, life.height,
                     BlinkerCells(life.width, life.height, c[1], c[2], ~horizontal))
            /\ (gen = 2) => life.current = seed

\* C10 witness: two steps were taken from a horizontal blinker whose centre is
\* in the top row, so that its perpendicular line wraps.
C10_Witness ==
    /\ pc = "render"
    /\ gen = 2
    /\ seed = GridOf(life.width, life.height,
                     BlinkerCells(life.width, life.height, 2, 0, TRUE))
    /\ prev = GridOf(life.width, life.height,
                     BlinkerCells(life.width, life.height, 2, 0, FALSE))

\* C11: in every state reached from Life::new by steps, each set call of a step
\* has x < width and y < height of the grid it writes, so no set returns the
\* error and no unwrap aborts.
C11_StepWritesInBounds ==
    /\ pc # "panic"
    /\ Running =>
         \A c \in Cells(life.width, life.height) :
             /\ c[1] < life.next.width
             /\ c[2] < life.next.height
             /\ ~Field_set(life.next, c[1], c[2], Field_next(life.current, c[1], c[2]).val).err

\* C11 witness: two steps have completed on a grid that is not square and still
\* has alive cells.
C11_Witness ==
    /\ pc = "render"
    /\ gen = 2
    /\ life.width # life.height
    /\ AliveCount(life.current) > 0

\* C12: current and scratch have the width and height of the Life, and each
\* holds exactly height rows of exactly width cells.
C12_Dimensions ==
    Running =>
        /\ life.width = args.width
        /\ life.height = args.height
        /\ \A f \in {life.current, life.next} :
             /\ f.width = life.width
             /\ f.height = life.height
             /\ DOMAIN f.cells = 0 .. life.height - 1
             /\ \A y \in DOMAIN f.cells : DOMAIN f.cells[y] = 0 .. life.width - 1

\* C12 witness: the grids have been swapped by a step on a grid that is not
\* square.
C12_Witness ==
    /\ pc = "render"
    /\ gen > 0
    /\ life.width > 1
    /\ life.height > life.width
    /\ life.current # life.next

\* C13: after a step the scratch grid is the grid that was current before it;
\* after n >= 1 steps scratch holds generation n-1 and current generation n.
C13_ScratchIsPreviousGeneration ==
    (pc = "render" /\ gen > 0) =>
        /\ life.next = prev
        /\ life.next = RefGen(seed, gen - 1)
        /\ life.current = RefGen(seed, gen)

\* C13 witness: after the second step scratch holds a populated generation 1
\* that differs from generations 0 and 2.
C13_Witness ==
    /\ pc = "render"
    /\ gen = 2
    /\ AliveCount(life.next) > 0
    /\ life.next # seed
    /\ life.next # life.current

\* C14: Field::set with x < width and y < height succeeds and changes exactly
\* one cell: is_alive(x, y) is val afterwards, every other cell keeps its value
\* and the dimensions are unchanged.
C14_SetWritesOneCell ==
    (ret.op = "set" /\ ret.x < prev.width /\ ret.y < prev.height) =>
        /\ ~ret.err
        /\ Field_is_alive(life.current, ret.x, ret.y) = [panic |-> FALSE, val |-> ret.val]
        /\ \A c \in Cells(prev.width, prev.height) \ {<<ret.x, ret.y>>} :
             life.current.cells[c[2]][c[1]] = prev.cells[c[2]][c[1]]
        /\ DOMAIN life.current.cells = DOMAIN prev.cells
        /\ \A y \in DOMAIN prev.cells : DOMAIN life.current.cells[y] = DOMAIN prev.cells[y]
        /\ life.current.width = prev.width
        /\ life.current.height = prev.height

\* C14 witness: set(x, y, false) killed an alive cell of a row in which another
\* cell stays alive.
C14_Witness ==
    /\ ret.op = "set"
    /\ ~ret.err
    /\ ~ret.val
    /\ prev.cells[ret.y][ret.x]
    /\ \E x \in 0 .. prev.width - 1 : x # ret.x /\ life.current.cells[ret.y][x]

\* C15: rendering changes no cell of current or scratch and no dimension, and a
\* second rendering with no step in between gives the text of the first.
C15_RenderReadOnly ==
    [][(pc = "render") => (life' = life /\ Life_fmt(life').text = out')]_vars

\* C15 witness: a frame was written after a step, of a populated grid whose
\* scratch grid differs from it.
C15_Witness ==
    /\ pc = "step"
    /\ gen > 0
    /\ AliveCount(life.current) > 0
    /\ life.next # life.current
    /\ Life_fmt(life).text = out

\* the 3x3 grid whose middle row (y = 1) is alive
Bar3x3 == GridOf(3, 3, {<<0, 1>>, <<1, 1>>, <<2, 1>>})

\* C16: on the 3x3 torus with exactly the middle row alive, every cell of the
\* top and bottom rows counts 3 alive neighbours and every cell of the middle
\* row 2; one step makes all nine cells alive and a second step none.
C16_BarOn3x3 ==
    /\ pc # "panic"
    /\ (Running /\ seed = Bar3x3) =>
         /\ (gen = 0) =>
              \A x \in 0 .. 2 :
                  /\ CountFrom(life.current, x, 0, 1, 0) = [panic |-> FALSE, n |-> 3]
                  /\ CountFrom(life.current, x, 1, 1, 0) = [panic |-> FALSE, n |-> 2]
                  /\ CountFrom(life.current, x, 2, 1, 0) = [panic |-> FALSE, n |-> 3]
         /\ (gen = 1) => life.current = GridOf(3, 3, Cells(3, 3))
         /\ (gen = 2) => life.current = GridOf(3, 3, {})

\* C16 witness: the second step from the bar has been taken, from the grid of
\* nine alive cells.
C16_Witness ==
    /\ pc = "render"
    /\ gen = 2
    /\ seed = Bar3x3
    /\ prev = GridOf(3, 3, Cells(3, 3))

\* scratch contents to run a step with: all dead, all alive, a copy of current,
\* and current with every cell inverted
ScratchVariants(l) ==
    {GridOf(l.width, l.height, {}),
     GridOf(l.width, l.height, Cells(l.width, l.height)),
     l.current,
     GridOf(l.width, l.height,
            {c \in Cells(l.width, l.height) : ~l.current.cells[c[2]][c[1]]})}

\* C17: the current grid after a step is determined by the current grid before
\* it: a Life with the same current grid and other scratch contents has the
\* same current grid after its step.
C17_ScratchDoesNotLeak ==
    (pc = "step") =>
        \A s \in ScratchVariants(life) :
            LET other == Life_step([life EXCEPT !.next = s])
                this  == Life_step(life)
            IN  /\ ~other.panic
                /\ ~this.panic
                /\ other.life.current = this.life.current

\* C17 witness: a step is about to be taken by a Life whose scratch grid is
\* populated and differs from each of the other scratch contents tried, and
\* whose next generation has both alive and dead cells.
C17_Witness ==
    /\ pc = "step"
    /\ gen > 0
    /\ AliveCount(life.next) > 0
    /\ life.next \notin ScratchVariants(life)
    /\ AliveCount(Life_step(life).life.current) \in 1 .. (life.width * life.height - 1)

\* C18: the neighbour count is taken per offset: next is the rule applied to the
\* number of offsets that lead to an alive cell, the cell itself included where
\* the torus wraps onto it; on a 1x1 grid an alive cell counts 8 and a dead cell
\* 0, and the grid is all dead after a step and stays so.
C18_CountPerOffset ==
    /\ pc # "panic"
    /\ Running =>
         \A c \in Cells(life.width, life.height) :
             LET n == Cardinality({d \in Offsets :
                         life.current.cells[(c[2] + d[2]) % life.height]
                                           [(c[1] + d[1]) % life.width]})
                 alive == life.current.cells[c[2]][c[1]]
             IN  /\ Field_next(life.current, c[1], c[2]) =
                        [panic |-> FALSE, val |-> n = 3 \/ (n = 2 /\ alive)]
                 /\ (life.width = 1 /\ life.height = 1) =>
                        /\ n = IF alive THEN 8 ELSE 0
                        /\ CountFrom(life.current, c[1], c[2], 1, 0).n = n
                        /\ (gen > 0) => ~alive

\* C18 witness: two steps were taken from the 1x1 grid whose cell is alive.
C18_Witness ==
    /\ pc = "render"
    /\ gen = 2
    /\ life.width = 1
    /\ life.height = 1
    /\ seed.cells[0][0]
    /\ ~life.current.cells[0][0]

====
